---- MODULE Spec2Model ----
(***************************************************************************)
(* A model of tim2dump's TIM2 container parser (TIM2Parser) and of its     *)
(* pixel / palette decoder (Picture), translated from src/src/tim2_parser.h *)
(* and src/src/tim2_types.h.                                                *)
(*                                                                          *)
(* Spec        : TIM2Parser::loadFile walking a byte file step by step.     *)
(* SpecDecode  : Picture::decodeImage / getClutColors applied to a Picture. *)
(* SpecColor16 : Color16::toColor32 applied to every 16-bit value.          *)
(* SpecAlign   : TIM2Parser::alignOffset / skipAlignment on every offset.   *)
(***************************************************************************)
EXTENDS Integers, Sequences, FiniteSets, TLC

VARIABLES
    file,          \* the bytes of the file named in the loadFile call
    canOpen,       \* whether std::ifstream can open it
    pos,           \* the stream's read position (tellg)
    failbit,       \* the stream's failbit (eofbit is only ever set together with it)
    pc,            \* position inside loadFile
    i,             \* loadFile's loop counter
    pic,           \* the local Picture being parsed
    ret,           \* loadFile's return value ("none" until it returns)
    m_fileHeader,  \* TIM2Parser::m_fileHeader, the 16 raw bytes of the struct
    m_pictures,    \* TIM2Parser::m_pictures
    m_valid,       \* TIM2Parser::m_valid
    m_lastError,   \* TIM2Parser::m_lastError
    warned,        \* whether the version warning was written to std::cerr
    hdrAt,         \* offsets at which the picture headers were read, in order
    written,       \* what the file was written from: [blocks, need, needMip]
    dpic,          \* the Picture a decode call is made on
    shiftMode,     \* what this build does with a shift count >= the int width
    call,          \* the last decode call: [op, level, junk]
    result,        \* the sequence of Color32 it returned
    imgReads,      \* the imageData indices it read
    clutReads,     \* the clutData indices it read
    palReads,      \* the indices of the decoded palette it read (colors[colorIdx])
    v16,           \* a Color16 value
    c32,           \* Color16{v16}.toColor32()
    argOffset,     \* an offset handed to alignOffset / a cursor handed to skipAlignment
    argAlignment,  \* the alignment handed with it
    aligned,       \* <<alignOffset(argOffset, argAlignment)>> once it was called
    skipped        \* <<the cursor after skipAlignment(file, argAlignment)>> once it was called

parserVars == <<file, canOpen, pos, failbit, pc, i, pic, ret, m_fileHeader,
                m_pictures, m_valid, m_lastError, warned, hdrAt, written>>
decodeVars == <<dpic, shiftMode, call, result, imgReads, clutReads, palReads>>
colorVars  == <<v16, c32>>
alignVars  == <<argOffset, argAlignment, aligned, skipped>>
vars == <<file, canOpen, pos, failbit, pc, i, pic, ret, m_fileHeader,
          m_pictures, m_valid, m_lastError, warned, hdrAt, written,
          dpic, shiftMode, call, result, imgReads, clutReads, palReads, v16, c32,
          argOffset, argAlignment, aligned, skipped>>

-----------------------------------------------------------------------------
(* Bytes and little-endian integers (the structs are read with memcpy /     *)
(* istream::read on a little-endian host, #pragma pack(1)).                 *)

Min(a, b) == IF a < b THEN a ELSE b
Max(a, b) == IF a < b THEN b ELSE a

RECURSIVE Pow2(_)
Pow2(n) == IF n = 0 THEN 1 ELSE 2 * Pow2(n - 1)

Zeros(n) == [j \in 1..n |-> 0]

LE16(v) == <<v % 256, (v \div 256) % 256>>
LE32(v) == <<v % 256, (v \div 256) % 256, (v \div 65536) % 256, (v \div 16777216) % 256>>

U16(b) == b[1] + 256 * b[2]
U32(b) == b[1] + 256 * b[2] + 65536 * b[3] + 16777216 * b[4]

\* Bit tests on a byte, as the code's masks 0x80, 0x40, 0x3F.
BitAnd3F(b) == b % 64
Bit7(b) == (b \div 128) % 2 = 1
Bit6(b) == (b \div 64) % 2 = 1

-----------------------------------------------------------------------------
(* tim2_types.h                                                             *)

TIM2_FORMAT_VERSION == 4
TIM2_ALIGN_16 == 0
TIM2_ALIGN_128 == 1

TIM2_NONE == 0
TIM2_RGB16 == 1
TIM2_RGB24 == 2
TIM2_RGB32 == 3
TIM2_IDTEX4 == 4
TIM2_IDTEX8 == 5

SizeofFileHeader == 16
SizeofPictureHeader == 48
SizeofExtendedHeader == 16

MagicTIM2 == <<84, 73, 77, 50>>      \* 'T','I','M','2'
MagicEXt  == <<101, 88, 116, 0>>     \* 'e','X','t','\0'

\* FileHeader accessors over the raw 16 bytes.
fileId(h)        == SubSeq(h, 1, 4)
formatVersion(h) == h[5]
formatId(h)      == h[6]
pictures(h)      == U16(SubSeq(h, 7, 8))

FileHeaderIsValid(h) == fileId(h) = MagicTIM2

getAlignmentNonZero128(h) == IF formatId(h) # TIM2_ALIGN_16 THEN 128 ELSE 16

getAlignment(h) == IF formatId(h) = TIM2_ALIGN_128 THEN 128 ELSE 16

\* PictureHeader decoded from its 48 raw bytes.
PictureHeaderOf(b) ==
    [ totalSize      |-> U32(SubSeq(b, 1, 4)),
      clutSize       |-> U32(SubSeq(b, 5, 8)),
      imageSize      |-> U32(SubSeq(b, 9, 12)),
      headerSize     |-> U16(SubSeq(b, 13, 14)),
      clutColors     |-> U16(SubSeq(b, 15, 16)),
      pictFormat     |-> b[17],
      mipMapTextures |-> b[18],
      clutType       |-> b[19],
      imageType      |-> b[20],
      imageWidth     |-> U16(SubSeq(b, 21, 22)),
      imageHeight    |-> U16(SubSeq(b, 23, 24)),
      gsTex0         |-> SubSeq(b, 25, 32),
      gsTex1         |-> SubSeq(b, 33, 40),
      gsTexaFbaPabe  |-> SubSeq(b, 41, 44),
      gsTexClut      |-> SubSeq(b, 45, 48) ]

getImagePixelFormat(h) == h.imageType
getClutPixelFormat(h)  == BitAnd3F(h.clutType)
isClutCSM2(h)          == Bit7(h.clutType)
isClutCompound(h)      == Bit6(h.clutType)
hasClut(h)             == h.clutSize > 0 /\ getClutPixelFormat(h) # TIM2_NONE
hasMipMaps(h)          == h.mipMapTextures > 1

ExtendedHeaderOf(b) ==
    [ exHeaderId    |-> SubSeq(b, 1, 4),
      userSpaceSize |-> U32(SubSeq(b, 5, 8)),
      userDataSize  |-> U32(SubSeq(b, 9, 12)),
      reserved      |-> U32(SubSeq(b, 13, 16)) ]

ExtendedHeaderIsValid(e) == e.exHeaderId = MagicEXt

None == [none |-> TRUE]

\* Color32: the default constructor gives (0,0,0,255).
Color32(r_, g_, b_, a_) == [r |-> r_, g |-> g_, b |-> b_, a |-> a_]
DefaultColor32 == Color32(0, 0, 0, 255)

\* `Picture pic;`
EmptyPicture ==
    [ header       |-> PictureHeaderOf(Zeros(48)),
      mipMapHeader |-> None,
      userData     |-> <<>>,
      imageData    |-> <<>>,
      clutData     |-> <<>>,
      extHeader    |-> None,
      comment      |-> <<>> ]

-----------------------------------------------------------------------------
(* Bit operations on naturals, for Color16 and expand5to8.                  *)

RECURSIVE BitAnd(_, _)
BitAnd(a, b) ==
    IF a = 0 \/ b = 0 THEN 0
    ELSE 2 * BitAnd(a \div 2, b \div 2) + (IF a % 2 = 1 /\ b % 2 = 1 THEN 1 ELSE 0)

RECURSIVE BitOr(_, _)
BitOr(a, b) ==
    IF a = 0 THEN b
    ELSE IF b = 0 THEN a
    ELSE 2 * BitOr(a \div 2, b \div 2) + (IF a % 2 = 1 \/ b % 2 = 1 THEN 1 ELSE 0)

Shl(a, n) == a * Pow2(n)
Shr(a, n) == a \div Pow2(n)
Uint8(a) == a % 256

\* utils::expand5to8
expand5to8(value) == Uint8(BitOr(Shl(value, 3), Shr(value, 2)))

toColor32GreenUnshifted(value) ==
    Color32(Uint8(BitOr(Shl(BitAnd(value, 31), 3), Shr(BitAnd(value, 31), 2))),
            Uint8(BitOr(Shr(BitAnd(value, 992), 2), Shr(BitAnd(value, 992), 5))),
            Uint8(BitOr(Shr(BitAnd(value, 31744), 7), Shr(BitAnd(value, 31744), 12))),
            IF BitAnd(value, 32768) # 0 THEN 255 ELSE 0)

\* Color16::toColor32 (0x001F = 31, 0x03E0 = 992, 0x7C00 = 31744, 0x8000 = 32768)
toColor32(value) ==
    Color32(Uint8(BitOr(Shl(BitAnd(value, 31), 3), Shr(BitAnd(value, 31), 2))),
            Uint8(BitOr(Shr(BitAnd(value, 992), 2), Shr(BitAnd(value, 992), 7))),
            Uint8(BitOr(Shr(BitAnd(value, 31744), 7), Shr(BitAnd(value, 31744), 12))),
            IF BitAnd(value, 32768) # 0 THEN 255 ELSE 0)

-----------------------------------------------------------------------------
(* Picture: decodeImage, getClutColors, getPixelColor.                      *)
(* A decode returns its colours together with the indices of imageData and *)
(* clutData it read.  A read at or beyond the end of a vector is undefined; *)
(* it yields the byte `junk`, chosen by the caller.                         *)

IntBits == 32

\* imageWidth >> level: the uint16_t is promoted to int, so a count of
\* IntBits or more is undefined.  The builds differ: the result is 0, or the
\* count is taken modulo 32 or modulo 64.
ShiftRight(v, n, mode) ==
    LET shr(c) == IF c >= 16 THEN 0 ELSE Shr(v, c)
    IN  IF n < IntBits THEN shr(n)
        ELSE CASE mode = "zero"  -> 0
               [] mode = "mod32" -> shr(n % 32)
               [] mode = "mod64" -> shr(n % 64)

ShiftModes == {"zero", "mod32", "mod64"}

getMipMapWidth(p, level, mode)  == Max(1, ShiftRight(p.header.imageWidth, level, mode))
getMipMapHeight(p, level, mode) == Max(1, ShiftRight(p.header.imageHeight, level, mode))

RECURSIVE SumTo(_, _)
SumTo(sizes, n) == IF n = 0 THEN 0 ELSE SumTo(sizes, n - 1) + sizes[n]

getImageOffsetInclusive(p, mipLevel) ==
    IF p.mipMapHeader = None \/ mipLevel = 0 THEN 0
    ELSE SumTo(p.mipMapHeader.sizes, Min(mipLevel + 1, Len(p.mipMapHeader.sizes)))

getImageOffset(p, mipLevel) ==
    IF p.mipMapHeader = None \/ mipLevel = 0 THEN 0
    ELSE SumTo(p.mipMapHeader.sizes, Min(mipLevel, Len(p.mipMapHeader.sizes)))

ByteAt(data, idx, junk) == IF idx < Len(data) THEN data[idx + 1] ELSE junk

clutIndexNoSwap(h, n) == n

clutIndexIgnoresCSM2(h, n) ==
    IF isClutCompound(h)
    THEN LET block    == n \div 32
             localIdx == n % 32
         IN  block * 32 +
             (IF localIdx >= 8 /\ localIdx < 16 THEN localIdx + 8
              ELSE IF localIdx >= 16 /\ localIdx < 24 THEN localIdx - 8
              ELSE localIdx)
    ELSE n

\* The remap of CSM1 compound palettes, lines 151-164.
clutIndex(h, n) ==
    IF ~isClutCSM2(h) /\ isClutCompound(h)
    THEN LET block    == n \div 32
             localIdx == n % 32
         IN  block * 32 +
             (IF localIdx >= 8 /\ localIdx < 16 THEN localIdx + 8
              ELSE IF localIdx >= 16 /\ localIdx < 24 THEN localIdx - 8
              ELSE localIdx)
    ELSE n

\* One palette entry, lines 166-197: [color, reads].
clutColor(p, n, junk) ==
    LET index == clutIndex(p.header, n)
        fmt   == getClutPixelFormat(p.header)
        at(k) == ByteAt(p.clutData, k, junk)
    IN  CASE fmt = TIM2_RGB16 ->
               [ color |-> toColor32(at(index * 2) + 256 * at(index * 2 + 1)),
                 reads |-> {index * 2, index * 2 + 1} ]
          [] fmt = TIM2_RGB24 ->
               [ color |-> Color32(at(index * 3), at(index * 3 + 1), at(index * 3 + 2), 255),
                 reads |-> {index * 3, index * 3 + 1, index * 3 + 2} ]
          [] fmt = TIM2_RGB32 ->
               [ color |-> Color32(at(index * 4), at(index * 4 + 1), at(index * 4 + 2),
                                   at(index * 4 + 3)),
                 reads |-> {index * 4, index * 4 + 1, index * 4 + 2, index * 4 + 3} ]
          [] OTHER -> [color |-> DefaultColor32, reads |-> {}]

getClutColors(p, junk) ==
    IF ~hasClut(p.header) THEN [colors |-> <<>>, reads |-> {}]
    ELSE [ colors |-> [n \in 1..p.header.clutColors |-> clutColor(p, n - 1, junk).color],
           reads  |-> UNION {clutColor(p, n - 1, junk).reads : n \in 1..p.header.clutColors} ]

\* The palette lookup of the indexed formats: [color, reads, creads, entries],
\* `entries` the indices at which the decoded palette is read.
lookupUnchecked(p, colorIdx, read, junk) ==
    LET colors == getClutColors(p, junk)
    IN  [ color   |-> IF colorIdx < Len(colors.colors)
                      THEN colors.colors[colorIdx + 1] ELSE Color32(junk, junk, junk, junk),
          reads   |-> {read},
          creads  |-> colors.reads,
          entries |-> {colorIdx} ]

lookup(p, colorIdx, read, junk) ==
    LET colors == getClutColors(p, junk)
    IN  [ color   |-> IF colorIdx < Len(colors.colors)
                      THEN colors.colors[colorIdx + 1] ELSE DefaultColor32,
          reads   |-> {read},
          creads  |-> colors.reads,
          entries |-> IF colorIdx < Len(colors.colors) THEN {colorIdx} ELSE {} ]

getPixelColorSwapsNibbles(p, x, y, mipLevel, mode, junk) ==
    LET offset == getImageOffset(p, mipLevel)
        width  == getMipMapWidth(p, mipLevel, mode)
        at(k)  == ByteAt(p.imageData, offset + k, junk)
        pixelIdx == y * width + x
        byteIdx  == pixelIdx \div 2
        packed   == at(byteIdx)
        colorIdx == IF pixelIdx % 2 = 1 THEN packed % 16 ELSE packed \div 16
    IN  IF getImagePixelFormat(p.header) = TIM2_IDTEX4 /\ hasClut(p.header)
        THEN lookup(p, colorIdx, offset + byteIdx, junk)
        ELSE [color |-> DefaultColor32, reads |-> {}, creads |-> {}, entries |-> {}]

getPixelColorBGR(p, x, y, mipLevel, mode, junk) ==
    LET offset == getImageOffset(p, mipLevel)
        width  == getMipMapWidth(p, mipLevel, mode)
        at(k)  == ByteAt(p.imageData, offset + k, junk)
        pixel  == y * width + x
        fmt    == getImagePixelFormat(p.header)
    IN  CASE fmt = TIM2_RGB32 ->
               [ color |-> Color32(at(pixel * 4 + 2), at(pixel * 4 + 1), at(pixel * 4),
                                   at(pixel * 4 + 3)),
                 reads |-> {offset + pixel * 4 + k : k \in 0..3}, creads |-> {}, entries |-> {} ]
          [] fmt = TIM2_RGB24 ->
               [ color |-> Color32(at(pixel * 3 + 2), at(pixel * 3 + 1), at(pixel * 3), 255),
                 reads |-> {offset + pixel * 3 + k : k \in 0..2}, creads |-> {}, entries |-> {} ]
          [] OTHER -> [color |-> DefaultColor32, reads |-> {}, creads |-> {}, entries |-> {}]

\* getPixelColor: [color, reads, creads, entries].
getPixelColor(p, x, y, mipLevel, mode, junk) ==
    LET offset == getImageOffset(p, mipLevel)
        width  == getMipMapWidth(p, mipLevel, mode)
        at(k)  == ByteAt(p.imageData, offset + k, junk)
        pixel  == y * width + x
        fmt    == getImagePixelFormat(p.header)
        nothing == [color |-> DefaultColor32, reads |-> {}, creads |-> {}, entries |-> {}]
    IN  CASE fmt = TIM2_RGB32 ->
               [ color |-> Color32(at(pixel * 4), at(pixel * 4 + 1), at(pixel * 4 + 2),
                                   at(pixel * 4 + 3)),
                 reads |-> {offset + pixel * 4 + k : k \in 0..3}, creads |-> {}, entries |-> {} ]
          [] fmt = TIM2_RGB24 ->
               [ color |-> Color32(at(pixel * 3), at(pixel * 3 + 1), at(pixel * 3 + 2), 255),
                 reads |-> {offset + pixel * 3 + k : k \in 0..2}, creads |-> {}, entries |-> {} ]
          [] fmt = TIM2_RGB16 ->
               [ color |-> toColor32(at(pixel * 2) + 256 * at(pixel * 2 + 1)),
                 reads |-> {offset + pixel * 2 + k : k \in 0..1}, creads |-> {}, entries |-> {} ]
          [] fmt = TIM2_IDTEX8 ->
               IF hasClut(p.header)
               THEN lookup(p, at(pixel), offset + pixel, junk)
               ELSE nothing
          [] fmt = TIM2_IDTEX4 ->
               IF hasClut(p.header)
               THEN LET pixelIdx == pixel
                        byteIdx  == pixelIdx \div 2
                        packed   == at(byteIdx)
                        colorIdx == IF pixelIdx % 2 = 1 THEN packed \div 16 ELSE packed % 16
                    IN  lookup(p, colorIdx, offset + byteIdx, junk)
               ELSE nothing
          [] OTHER -> nothing

decodeImageOffByOne(p, mipLevel, mode, junk) ==
    IF mipLevel > p.header.mipMapTextures
    THEN [colors |-> <<>>, reads |-> {}, creads |-> {}, entries |-> {}]
    ELSE LET width  == getMipMapWidth(p, mipLevel, mode)
             height == getMipMapHeight(p, mipLevel, mode)
             px(n)  == getPixelColor(p, (n - 1) % width, (n - 1) \div width, mipLevel,
                                     mode, junk)
         IN  [ colors |-> [n \in 1..(width * height) |-> px(n).color],
               reads  |-> UNION {px(n).reads : n \in 1..(width * height)},
               creads |-> UNION {px(n).creads : n \in 1..(width * height)},
               entries |-> UNION {px(n).entries : n \in 1..(width * height)} ]

\* decodeImage: result[y * width + x] = getPixelColor(x, y, mipLevel).
decodeImage(p, mipLevel, mode, junk) ==
    IF mipLevel >= p.header.mipMapTextures
    THEN [colors |-> <<>>, reads |-> {}, creads |-> {}, entries |-> {}]
    ELSE LET width  == getMipMapWidth(p, mipLevel, mode)
             height == getMipMapHeight(p, mipLevel, mode)
             px(n)  == getPixelColor(p, (n - 1) % width, (n - 1) \div width, mipLevel,
                                     mode, junk)
         IN  [ colors |-> [n \in 1..(width * height) |-> px(n).color],
               reads  |-> UNION {px(n).reads : n \in 1..(width * height)},
               creads |-> UNION {px(n).creads : n \in 1..(width * height)},
               entries |-> UNION {px(n).entries : n \in 1..(width * height)} ]

-----------------------------------------------------------------------------
(* std::ifstream, as the parser uses it.  st = [pos, fail].                 *)
(* read(n) on a good stream takes the bytes that are left, at most n, and   *)
(* sets failbit (with eofbit) when they are fewer than n; on a failed       *)
(* stream it takes nothing.  seekg on a good stream moves the position,     *)
(* also beyond the end of the file; on a failed stream it does nothing.     *)

Avail(f, st, n) == IF st.fail THEN 0 ELSE Min(n, Max(0, Len(f) - st.pos))

StreamRead(f, st, n) ==
    LET k == Avail(f, st, n)
    IN  [ data |-> SubSeq(f, st.pos + 1, st.pos + k),
          st   |-> [pos |-> st.pos + k, fail |-> st.fail \/ k < n] ]

StreamSeek(st, target) == IF st.fail THEN st ELSE [st EXCEPT !.pos = target]

good(st) == ~st.fail

\* The bytes a short read leaves in a buffer that held `old`.
Overlay(data, old) == data \o SubSeq(old, Len(data) + 1, Len(old))

-----------------------------------------------------------------------------
(* TIM2Parser helpers                                                       *)

NoError == [msg |-> "", arg |-> -1]
Error(m) == [msg |-> m, arg |-> -1]
ErrorAt(m, n) == [msg |-> m, arg |-> n]

\* utils.h
alignUp(value, alignment) == ((value + alignment - 1) \div alignment) * alignment
isAligned(value, alignment) == (value % alignment) = 0

alignOffsetRoundsDown(offset, alignment) == (offset \div alignment) * alignment

alignOffsetSkipsAligned(offset, alignment) == ((offset \div alignment) + 1) * alignment

alignOffset(offset, alignment) == ((offset + alignment - 1) \div alignment) * alignment

skipAlignment(st, alignment) ==
    LET currentPos == st.pos
        alignedPos == alignOffset(currentPos, alignment)
    IN  IF alignedPos > currentPos THEN StreamSeek(st, alignedPos) ELSE st

parseFileHeaderRejectsVersion(f, st, old) ==
    LET rd  == StreamRead(f, st, SizeofFileHeader)
        hdr == Overlay(rd.data, old)
    IN  IF rd.st.fail
        THEN [ok |-> FALSE, st |-> rd.st, hdr |-> hdr, warn |-> FALSE,
              err |-> Error("Failed to read file header")]
        ELSE IF ~FileHeaderIsValid(hdr) \/ formatVersion(hdr) # TIM2_FORMAT_VERSION
        THEN [ok |-> FALSE, st |-> rd.st, hdr |-> hdr, warn |-> FALSE,
              err |-> Error("Invalid TIM2 file signature")]
        ELSE [ok |-> TRUE, st |-> rd.st, hdr |-> hdr, warn |-> FALSE, err |-> NoError]

parseFileHeaderNoMagicCheck(f, st, old) ==
    LET rd  == StreamRead(f, st, SizeofFileHeader)
        hdr == Overlay(rd.data, old)
    IN  IF rd.st.fail
        THEN [ok |-> FALSE, st |-> rd.st, hdr |-> hdr, warn |-> FALSE,
              err |-> Error("Failed to read file header")]
        ELSE [ok |-> TRUE, st |-> rd.st, hdr |-> hdr,
              warn |-> formatVersion(hdr) # TIM2_FORMAT_VERSION, err |-> NoError]

\* parseFileHeader: `old` is m_fileHeader before the call, `err` the new
\* m_lastError (NoError: unchanged), `warn` the std::cerr warning.
parseFileHeader(f, st, old) ==
    LET rd  == StreamRead(f, st, SizeofFileHeader)
        hdr == Overlay(rd.data, old)
    IN  IF rd.st.fail
        THEN [ok |-> FALSE, st |-> rd.st, hdr |-> hdr, warn |-> FALSE,
              err |-> Error("Failed to read file header")]
        ELSE IF ~FileHeaderIsValid(hdr)
        THEN [ok |-> FALSE, st |-> rd.st, hdr |-> hdr, warn |-> FALSE,
              err |-> Error("Invalid TIM2 file signature")]
        ELSE [ok |-> TRUE, st |-> rd.st, hdr |-> hdr,
              warn |-> formatVersion(hdr) # TIM2_FORMAT_VERSION, err |-> NoError]

\* parsePicture, lines 401-406: the fixed 48-byte header.
readPictureHeader(f, st, p) ==
    LET rd == StreamRead(f, st, SizeofPictureHeader)
    IN  [ ok  |-> ~rd.st.fail,
          st  |-> rd.st,
          pic |-> IF rd.st.fail THEN p
                  ELSE [p EXCEPT !.header = PictureHeaderOf(rd.data)],
          err |-> IF rd.st.fail THEN Error("Failed to read picture header") ELSE NoError ]

\* 16 + 4 * levels, rounded up to 16.
mipHeaderSize(p) == 16 + p.header.mipMapTextures * 4
headerDataSizeIgnoresMip(p) == SizeofPictureHeader

headerDataSize(p) ==
    SizeofPictureHeader +
    (IF p.mipMapHeader # None THEN alignOffset(mipHeaderSize(p), 16) ELSE 0)

RECURSIVE U32s(_)
U32s(b) == IF Len(b) < 4 THEN <<>> ELSE <<U32(SubSeq(b, 1, 4))>> \o U32s(SubSeq(b, 5, Len(b)))

parseMipMapHeaderNoPadding(f, st, p) ==
    LET n     == p.header.mipMapTextures
        size  == 16 + n * 4
        rd    == StreamRead(f, st, size)
        raw   == Overlay(rd.data, Zeros(size))
        mip   == [ gsMiptbp1 |-> SubSeq(raw, 1, 8),
                   gsMiptbp2 |-> SubSeq(raw, 9, 16),
                   sizes     |-> U32s(SubSeq(raw, 17, size)) ]
    IN  [ ok  |-> good(rd.st), st |-> rd.st,
          pic |-> [p EXCEPT !.mipMapHeader = mip], err |-> NoError ]

\* parseMipMapHeader: the reads are unchecked and contiguous, so the bytes
\* that are left fill gsMiptbp1, gsMiptbp2 and sizes[] in order and the rest
\* stays zero; then the padding is skipped with a relative seekg.
parseMipMapHeader(f, st, p) ==
    LET n     == p.header.mipMapTextures
        size  == 16 + n * 4
        rd    == StreamRead(f, st, size)
        raw   == Overlay(rd.data, Zeros(size))
        mip   == [ gsMiptbp1 |-> SubSeq(raw, 1, 8),
                   gsMiptbp2 |-> SubSeq(raw, 9, 16),
                   sizes     |-> U32s(SubSeq(raw, 17, size)) ]
        padded == alignOffset(size, 16)
        st2   == IF padded > size
                 THEN StreamSeek(rd.st, rd.st.pos + (padded - size)) ELSE rd.st
    IN  [ ok  |-> good(st2), st |-> st2,
          pic |-> [p EXCEPT !.mipMapHeader = mip], err |-> NoError ]

\* strnlen
RECURSIVE strnlen(_, _)
strnlen(s, maxLen) ==
    IF maxLen = 0 \/ s = <<>> \/ Head(s) = 0 THEN 0
    ELSE 1 + strnlen(Tail(s), maxLen - 1)

parseUserSpaceIgnoresValidSize(f, st, p) ==
    LET userSpaceSize == p.header.headerSize - headerDataSize(p)
        rd    == StreamRead(f, st, userSpaceSize)
        data  == Overlay(rd.data, Zeros(userSpaceSize))
        p1    == [p EXCEPT !.userData = data]
        ext   == ExtendedHeaderOf(SubSeq(data, 1, SizeofExtendedHeader))
        commentOffset == SizeofExtendedHeader + ext.userDataSize
        endLimit == userSpaceSize
        p2    == IF userSpaceSize >= SizeofExtendedHeader /\ ExtendedHeaderIsValid(ext)
                 THEN [p1 EXCEPT
                         !.extHeader = ext,
                         !.comment =
                            IF commentOffset < endLimit
                            THEN LET maxLen == endLimit - commentOffset
                                     tail == SubSeq(data, commentOffset + 1, Len(data))
                                 IN  SubSeq(tail, 1, strnlen(tail, maxLen))
                            ELSE <<>>]
                 ELSE p1
    IN  IF userSpaceSize = 0
        THEN [ok |-> TRUE, st |-> st, pic |-> p, err |-> NoError]
        ELSE [ok |-> good(rd.st), st |-> rd.st, pic |-> p2, err |-> NoError]

\* parseUserSpace (called only when headerSize > headerDataSize).
parseUserSpace(f, st, p) ==
    LET userSpaceSize == p.header.headerSize - headerDataSize(p)
        rd    == StreamRead(f, st, userSpaceSize)
        data  == Overlay(rd.data, Zeros(userSpaceSize))
        p1    == [p EXCEPT !.userData = data]
        ext   == ExtendedHeaderOf(SubSeq(data, 1, SizeofExtendedHeader))
        commentOffset == SizeofExtendedHeader + ext.userDataSize
        endLimit == Min(userSpaceSize, ext.userSpaceSize)
        p2    == IF userSpaceSize >= SizeofExtendedHeader /\ ExtendedHeaderIsValid(ext)
                 THEN [p1 EXCEPT
                         !.extHeader = ext,
                         !.comment =
                            IF commentOffset < endLimit
                            THEN LET maxLen == endLimit - commentOffset
                                     tail == SubSeq(data, commentOffset + 1, Len(data))
                                 IN  SubSeq(tail, 1, strnlen(tail, maxLen))
                            ELSE <<>>]
                 ELSE p1
    IN  IF userSpaceSize = 0
        THEN [ok |-> TRUE, st |-> st, pic |-> p, err |-> NoError]
        ELSE [ok |-> good(rd.st), st |-> rd.st, pic |-> p2, err |-> NoError]

parseImageDataUnchecked(f, st, p) ==
    LET rd == StreamRead(f, st, p.header.imageSize)
    IN  [ ok |-> TRUE, st |-> [rd.st EXCEPT !.fail = FALSE],
          pic |-> [p EXCEPT !.imageData = Overlay(rd.data, Zeros(p.header.imageSize))],
          err |-> NoError ]

parseImageData(f, st, p) ==
    LET rd == StreamRead(f, st, p.header.imageSize)
    IN  [ ok |-> good(rd.st), st |-> rd.st,
          pic |-> [p EXCEPT !.imageData = Overlay(rd.data, Zeros(p.header.imageSize))],
          err |-> NoError ]

parseClutData(f, st, p) ==
    LET rd == StreamRead(f, st, p.header.clutSize)
    IN  [ ok |-> good(rd.st), st |-> rd.st,
          pic |-> [p EXCEPT !.clutData = Overlay(rd.data, Zeros(p.header.clutSize))],
          err |-> NoError ]

seekAlignedDown(st, alignment) == StreamSeek(st, (st.pos \div alignment) * alignment)

seekAlignedNoop(st, alignment) == st

\* The aligned jump before the image data and before the CLUT data.
seekAligned(st, alignment) ==
    LET currentPos == st.pos
        start      == alignOffset(currentPos, alignment)
    IN  IF start > currentPos THEN StreamSeek(st, start) ELSE st

\* parsePicture as a whole: [ok, st, pic, at], `at` the offset its header was
\* read at.  Each stage returns early when the stage before it failed.
parsePicture(f, st, alignment) ==
    LET s1 == readPictureHeader(f, st, EmptyPicture)
        s2 == IF s1.pic.header.mipMapTextures > 1
              THEN parseMipMapHeader(f, s1.st, s1.pic) ELSE s1
        s3 == IF s2.pic.header.headerSize > headerDataSize(s2.pic)
              THEN parseUserSpace(f, s2.st, s2.pic) ELSE s2
        i4 == seekAligned(s3.st, alignment)
        s4 == IF s3.pic.header.imageSize > 0
              THEN parseImageData(f, i4, s3.pic)
              ELSE [s3 EXCEPT !.st = i4]
        c5 == seekAligned(s4.st, alignment)
        s5 == IF s4.pic.header.clutSize > 0
              THEN parseClutData(f, c5, s4.pic)
              ELSE [s4 EXCEPT !.st = c5]
    IN  IF ~s1.ok THEN s1
        ELSE IF ~s2.ok THEN s2
        ELSE IF ~s3.ok THEN s3
        ELSE IF ~s4.ok THEN s4
        ELSE s5

\* The loop of loadFile from picture k on, with `pics` parsed so far.
RECURSIVE parsePictures(_, _, _, _, _)
parsePictures(f, st, hdr, k, pics) ==
    IF k >= pictures(hdr)
    THEN [ret |-> TRUE, m_valid |-> TRUE, m_pictures |-> pics, m_lastError |-> NoError]
    ELSE LET r == parsePicture(f, st, getAlignment(hdr))
         IN  IF ~r.ok
             THEN [ret |-> FALSE, m_valid |-> FALSE, m_pictures |-> pics,
                   m_lastError |-> ErrorAt("Failed to parse picture", k)]
             ELSE parsePictures(f, r.st, hdr, k + 1, Append(pics, r.pic))

\* loadFile on an openable file f, run to its return: what the parser exposes.
loadFile(f, old) ==
    LET h == parseFileHeader(f, [pos |-> 0, fail |-> FALSE], old)
    IN  IF ~h.ok
        THEN [ret |-> FALSE, m_valid |-> FALSE, m_pictures |-> <<>>,
              m_lastError |-> h.err, m_fileHeader |-> h.hdr]
        ELSE LET r == parsePictures(f, skipAlignment(h.st, getAlignment(h.hdr)),
                                    h.hdr, 0, <<>>)
             IN  [ret |-> r.ret, m_valid |-> r.m_valid, m_pictures |-> r.m_pictures,
                  m_lastError |-> r.m_lastError, m_fileHeader |-> h.hdr]

-----------------------------------------------------------------------------
(* The files the parser is run on.  A file is written from a list of        *)
(* picture blocks in the TIM2 layout (file header, padding, then per        *)
(* picture: header, mipmap header padded to 16, user space, padding, image  *)
(* bytes, padding, CLUT bytes) and then cut at or next to a section         *)
(* boundary, so that every section of every picture is met truncated.       *)

MaxPictures == 2

Payload(seed, n) == [j \in 1..n |-> (seed + 7 * j) % 256]

PadLen(n, a) == (a - (n % a)) % a

PictureHeaderBytes(h) ==
    LE32(h.totalSize) \o LE32(h.clutSize) \o LE32(h.imageSize) \o
    LE16(h.headerSize) \o LE16(h.clutColors) \o
    <<h.pictFormat, h.mipMapTextures, h.clutType, h.imageType>> \o
    LE16(h.imageWidth) \o LE16(h.imageHeight) \o
    h.gsTex0 \o h.gsTex1 \o h.gsTexaFbaPabe \o h.gsTexClut

RECURSIVE LE32s(_)
LE32s(vs) == IF vs = <<>> THEN <<>> ELSE LE32(Head(vs)) \o LE32s(Tail(vs))

Header(clutSize_, imageSize_, headerSize_, clutColors_, mips_, clutType_, imageType_, w_, h_, seed) ==
    [ totalSize      |-> headerSize_ + imageSize_ + clutSize_,
      clutSize       |-> clutSize_,
      imageSize      |-> imageSize_,
      headerSize     |-> headerSize_,
      clutColors     |-> clutColors_,
      pictFormat     |-> 0,
      mipMapTextures |-> mips_,
      clutType       |-> clutType_,
      imageType      |-> imageType_,
      imageWidth     |-> w_,
      imageHeight    |-> h_,
      gsTex0         |-> Payload(seed, 8),
      gsTex1         |-> Payload(seed + 1, 8),
      gsTexaFbaPabe  |-> Payload(seed + 2, 4),
      gsTexClut      |-> Payload(seed + 3, 4) ]

MipHeader(seed, sizes_) ==
    [gsMiptbp1 |-> Payload(seed + 4, 8), gsMiptbp2 |-> Payload(seed + 5, 8), sizes |-> sizes_]

\* An extended header, user data, a comment and its terminator.
ExtUserSpace(userData_, comment_, pad) ==
    MagicEXt \o LE32(16 + Len(userData_) + Len(comment_) + 1) \o LE32(Len(userData_))
    \o LE32(0) \o userData_ \o comment_ \o <<0>> \o Payload(200, pad)

\* An extended header that declares `valid` bytes of user space, then the
\* user data and whatever follows it.
ExtBlob(valid, userData_, rest) ==
    MagicEXt \o LE32(valid) \o LE32(Len(userData_)) \o LE32(0) \o userData_ \o rest

Shapes == {"rgb32", "mip", "ext", "extcut", "miponly", "raw"}

\* Picture block k of a file, by shape: what is written into the file.
Block(shape, k) ==
    LET seed == 16 * k + 1
    IN  CASE shape = "rgb32" ->
               [ header |-> Header(0, 8, 48, 0, 1, 0, TIM2_RGB32, 2, 1, seed),
                 mipMapHeader |-> None, user |-> <<>>,
                 imageData |-> <<10, 20, 30, 255, 40, 50, 60, 128>>, clutData |-> <<>> ]
          [] shape = "mip" ->
               [ header |-> Header(0, 10, 80, 0, 2, 0, TIM2_RGB16, 2, 2, seed),
                 mipMapHeader |-> MipHeader(seed, <<8, 2>>), user |-> <<>>,
                 imageData |-> Payload(seed + 6, 10), clutData |-> <<>> ]
          [] shape = "ext" ->
               [ header |-> Header(8, 1, 70, 2, 1, TIM2_RGB32, TIM2_IDTEX4, 2, 1, seed),
                 mipMapHeader |-> None,
                 user |-> IF k = 0 THEN ExtUserSpace(<<7, 9>>, <<97, 98>>, 1)
                          ELSE ExtBlob(100, <<7, 9>>, <<97, 98, 99, 100>>),
                 imageData |-> <<16>>, clutData |-> Payload(seed + 7, 8) ]
          [] shape = "extcut" ->
               [ header |-> Header(0, 1, 70, 0, 1, 0, TIM2_IDTEX8, 1, 1, seed),
                 mipMapHeader |-> None,
                 user |-> ExtBlob(IF k = 0 THEN 19 ELSE 18, <<7, 9>>, <<97, 98, 0, 200>>),
                 imageData |-> <<3>>, clutData |-> <<>> ]
          [] shape = "miponly" ->
               [ header |-> Header(0, 0, 0, 0, 2, 0, TIM2_NONE, 0, 0, seed),
                 mipMapHeader |-> MipHeader(seed, <<0, 0>>), user |-> <<>>,
                 imageData |-> <<>>, clutData |-> <<>> ]
          [] shape = "raw" ->
               [ header |-> Header(4, 0, 83, 2, 3, 64, 9, 1, 1, seed),
                 mipMapHeader |-> MipHeader(seed, <<0, 0, 0>>),
                 user |-> Payload(seed + 8, 3),
                 imageData |-> <<>>, clutData |-> Payload(seed + 9, 4) ]

\* w = [bytes, marks, need, needMip]: the bytes written so far, the section
\* boundaries, the end of the last section that holds data, and the end of
\* the last mipmap header with its padding.
Pad(w, section) ==
    [w EXCEPT !.bytes = w.bytes \o section,
              !.marks = w.marks \cup {Len(w.bytes) + Len(section)}]

Put(w, section) ==
    [Pad(w, section) EXCEPT
        !.need = IF section = <<>> THEN w.need ELSE Len(w.bytes) + Len(section)]

MipPad(w, section) ==
    [Pad(w, section) EXCEPT !.needMip = Len(w.bytes) + Len(section)]

WriteBlock(w, b, a) ==
    LET w1 == Put(w, PictureHeaderBytes(b.header))
        w2 == IF b.mipMapHeader = None THEN w1
              ELSE LET bare == b.mipMapHeader.gsMiptbp1 \o b.mipMapHeader.gsMiptbp2
                               \o LE32s(b.mipMapHeader.sizes)
                   IN  MipPad(Put(w1, bare), Zeros(PadLen(Len(bare), 16)))
        w3 == Put(w2, b.user)
        w4 == Put(Pad(w3, Zeros(PadLen(Len(w3.bytes), a))), b.imageData)
        w5 == Put(Pad(w4, Zeros(PadLen(Len(w4.bytes), a))), b.clutData)
    IN  w5

RECURSIVE WriteBlocks(_, _, _)
WriteBlocks(w, bs, a) ==
    IF bs = <<>> THEN w ELSE WriteBlocks(WriteBlock(w, Head(bs), a), Tail(bs), a)

FileHeaderBytes(magic, version, fmt, count) ==
    magic \o <<version, fmt>> \o LE16(count) \o Zeros(8)

\* fd = [magic, version, formatId, blocks]
WriteFile(fd) ==
    LET a  == IF fd.formatId = 1 THEN 128 ELSE 16
        w0 == Put([bytes |-> <<>>, marks |-> {}, need |-> 0, needMip |-> 0],
                  FileHeaderBytes(fd.magic, fd.version, fd.formatId, Len(fd.blocks)))
        w1 == Pad(w0, Zeros(PadLen(Len(w0.bytes), a)))
    IN  WriteBlocks(w1, fd.blocks, a)

Cuts(w) ==
    {c \in 0..Len(w.bytes) : c = 0 \/ \E m \in w.marks : c \in {m - 1, m}}

ShapeLists == UNION {[1..n -> Shapes] : n \in 0..MaxPictures}

\* Magic, version byte and alignment-mode byte of the files.
FileKinds ==
    { <<MagicTIM2, 4, 0>>, <<MagicTIM2, 4, 1>>, <<MagicTIM2, 5, 2>>,
      <<<<84, 73, 77, 51>>, 4, 0>> }

FileDescs ==
    { [magic |-> fk[1], version |-> fk[2], formatId |-> fk[3],
       blocks |-> [k \in 1..Len(sl) |-> Block(sl[k], k - 1)]] :
        fk \in FileKinds, sl \in ShapeLists }

-----------------------------------------------------------------------------
(* Spec: one TIM2Parser and one call of loadFile.                           *)

\* m_fileHeader has no initialiser: a fresh parser holds whatever was there.
FreshFileHeaders == {Zeros(16), MagicTIM2 \o Payload(90, 12)}

\* A parser that is used again holds what an earlier loadFile left: here a
\* load of a one-picture file in 128-byte mode, whole (it succeeded) or cut
\* inside its image data (it failed in picture 0).
EarlierFile ==
    WriteFile([magic |-> MagicTIM2, version |-> TIM2_FORMAT_VERSION,
               formatId |-> TIM2_ALIGN_128, blocks |-> <<Block("rgb32", 0)>>]).bytes

EarlierPicture ==
    [EmptyPicture EXCEPT !.header = Block("rgb32", 0).header,
                         !.imageData = Block("rgb32", 0).imageData]

\* [m_fileHeader, m_pictures, m_valid, m_lastError] before the call.
ParserStates ==
    { [m_fileHeader |-> h, m_pictures |-> <<>>, m_valid |-> FALSE,
       m_lastError |-> NoError] : h \in FreshFileHeaders }
    \cup
    { [m_fileHeader |-> SubSeq(EarlierFile, 1, SizeofFileHeader),
       m_pictures |-> <<EarlierPicture>>, m_valid |-> TRUE, m_lastError |-> NoError],
      [m_fileHeader |-> SubSeq(EarlierFile, 1, SizeofFileHeader),
       m_pictures |-> <<>>, m_valid |-> FALSE,
       m_lastError |-> ErrorAt("Failed to parse picture", 0)] }

NothingWritten == [blocks |-> <<>>, need |-> 0, needMip |-> 0]

NoCall == [op |-> "none", level |-> 0, junk |-> 0]

IdleDecoder ==
    /\ dpic = EmptyPicture
    /\ shiftMode = "zero"
    /\ call = NoCall
    /\ result = <<>>
    /\ imgReads = {}
    /\ clutReads = {}
    /\ palReads = {}

IdleColor == v16 = 0 /\ c32 = DefaultColor32

IdleAlign == argOffset = 0 /\ argAlignment = 16 /\ aligned = <<>> /\ skipped = <<>>

IdleParser ==
    /\ file = <<>>
    /\ canOpen = FALSE
    /\ written = NothingWritten
    /\ pos = 0
    /\ failbit = FALSE
    /\ pc = "off"
    /\ i = 0
    /\ pic = EmptyPicture
    /\ ret = "none"
    /\ m_fileHeader = Zeros(16)
    /\ m_pictures = <<>>
    /\ m_valid = FALSE
    /\ m_lastError = NoError
    /\ warned = FALSE
    /\ hdrAt = <<>>

Init ==
    /\ \E ps \in ParserStates :
          /\ m_fileHeader = ps.m_fileHeader
          /\ m_pictures = ps.m_pictures
          /\ m_valid = ps.m_valid
          /\ m_lastError = ps.m_lastError
    /\ \/ \E fd \in FileDescs :
            LET w == WriteFile(fd)
            IN  \E c \in Cuts(w) :
                    /\ file = SubSeq(w.bytes, 1, c)
                    /\ written = [blocks |-> fd.blocks, need |-> w.need,
                                  needMip |-> w.needMip]
                    /\ canOpen = TRUE
       \/ file = <<>> /\ written = NothingWritten /\ canOpen = FALSE
    /\ pos = 0
    /\ failbit = FALSE
    /\ pc = "idle"
    /\ i = 0
    /\ pic = EmptyPicture
    /\ ret = "none"
    /\ warned = FALSE
    /\ hdrAt = <<>>
    /\ IdleDecoder
    /\ IdleColor
    /\ IdleAlign

stream == [pos |-> pos, fail |-> failbit]

\* What a parse stage leaves: the stream, the picture, and the next position.
Stage(r, next) ==
    /\ pos' = r.st.pos
    /\ failbit' = r.st.fail
    /\ pic' = r.pic
    /\ m_lastError' = IF r.err = NoError THEN m_lastError ELSE r.err
    /\ pc' = IF r.ok THEN next ELSE "pictureFailed"

\* loadFile, lines 329-337.
LoadFile ==
    /\ pc = "idle"
    /\ m_valid' = FALSE
    /\ m_pictures' = <<>>
    /\ pos' = 0
    /\ failbit' = FALSE
    /\ IF canOpen
       THEN /\ m_lastError' = NoError
            /\ pc' = "fileHeader"
            /\ ret' = ret
       ELSE /\ m_lastError' = Error("Failed to open file")
            /\ pc' = "done"
            /\ ret' = "false"
    /\ UNCHANGED <<file, canOpen, written, i, pic, m_fileHeader, warned, hdrAt>>

\* loadFile, lines 340-342.
ParseFileHeader ==
    /\ pc = "fileHeader"
    /\ LET r == parseFileHeader(file, stream, m_fileHeader)
       IN  /\ m_fileHeader' = r.hdr
           /\ pos' = r.st.pos
           /\ failbit' = r.st.fail
           /\ warned' = r.warn
           /\ IF r.ok
              THEN /\ pc' = "skipAlignment"
                   /\ UNCHANGED <<ret, m_lastError>>
              ELSE /\ pc' = "done"
                   /\ ret' = "false"
                   /\ m_lastError' = r.err
    /\ UNCHANGED <<file, canOpen, written, i, pic, m_pictures, m_valid, hdrAt>>

\* loadFile, lines 344-350.
SkipAlignment ==
    /\ pc = "skipAlignment"
    /\ LET st == skipAlignment(stream, getAlignment(m_fileHeader))
       IN  pos' = st.pos /\ failbit' = st.fail
    /\ i' = 0
    /\ pc' = "loop"
    /\ UNCHANGED <<file, canOpen, written, pic, ret, m_fileHeader, m_pictures,
                   m_valid, m_lastError, warned, hdrAt>>

\* loadFile, lines 351-352 and 360-361.
NextPicture ==
    /\ pc = "loop"
    /\ IF i < pictures(m_fileHeader)
       THEN /\ pic' = EmptyPicture
            /\ pc' = "pictureHeader"
            /\ UNCHANGED <<m_valid, ret>>
       ELSE /\ m_valid' = TRUE
            /\ ret' = "true"
            /\ pc' = "done"
            /\ pic' = pic
    /\ UNCHANGED <<file, canOpen, written, pos, failbit, i, m_fileHeader, m_pictures,
                   m_lastError, warned, hdrAt>>

\* parsePicture, lines 401-406.
ReadPictureHeader ==
    /\ pc = "pictureHeader"
    /\ hdrAt' = Append(hdrAt, pos)
    /\ Stage(readPictureHeader(file, stream, pic), "mipMapHeader")
    /\ UNCHANGED <<file, canOpen, written, i, ret, m_fileHeader, m_pictures, m_valid,
                   warned>>

\* parsePicture, lines 408-413.
ParseMipMapHeader ==
    /\ pc = "mipMapHeader"
    /\ IF pic.header.mipMapTextures > 1
       THEN Stage(parseMipMapHeader(file, stream, pic), "userSpace")
       ELSE pc' = "userSpace" /\ UNCHANGED <<pos, failbit, pic, m_lastError>>
    /\ UNCHANGED <<file, canOpen, written, i, ret, m_fileHeader, m_pictures, m_valid,
                   warned, hdrAt>>

\* parsePicture, lines 415-427.
ParseUserSpace ==
    /\ pc = "userSpace"
    /\ IF pic.header.headerSize > headerDataSize(pic)
       THEN Stage(parseUserSpace(file, stream, pic), "imageData")
       ELSE pc' = "imageData" /\ UNCHANGED <<pos, failbit, pic, m_lastError>>
    /\ UNCHANGED <<file, canOpen, written, i, ret, m_fileHeader, m_pictures, m_valid,
                   warned, hdrAt>>

\* parsePicture, lines 429-441.
ParseImageData ==
    /\ pc = "imageData"
    /\ LET st == seekAligned(stream, getAlignment(m_fileHeader))
       IN  IF pic.header.imageSize > 0
           THEN Stage(parseImageData(file, st, pic), "clutData")
           ELSE /\ pos' = st.pos
                /\ failbit' = st.fail
                /\ pc' = "clutData"
                /\ UNCHANGED <<pic, m_lastError>>
    /\ UNCHANGED <<file, canOpen, written, i, ret, m_fileHeader, m_pictures, m_valid,
                   warned, hdrAt>>

\* parsePicture, lines 443-457.
ParseClutData ==
    /\ pc = "clutData"
    /\ LET st == seekAligned(stream, getAlignment(m_fileHeader))
       IN  IF pic.header.clutSize > 0
           THEN Stage(parseClutData(file, st, pic), "push")
           ELSE /\ pos' = st.pos
                /\ failbit' = st.fail
                /\ pc' = "push"
                /\ UNCHANGED <<pic, m_lastError>>
    /\ UNCHANGED <<file, canOpen, written, i, ret, m_fileHeader, m_pictures, m_valid,
                   warned, hdrAt>>

pushPictureDropsEarlier(ps, p) == <<p>>

pushPicture(ps, p) == Append(ps, p)

\* loadFile, line 357 and the loop increment.
PushPicture ==
    /\ pc = "push"
    /\ m_pictures' = pushPicture(m_pictures, pic)
    /\ i' = i + 1
    /\ pc' = "loop"
    /\ UNCHANGED <<file, canOpen, written, pos, failbit, pic, ret, m_fileHeader,
                   m_valid, m_lastError, warned, hdrAt>>

FailPictureSkips ==
    /\ pc = "pictureFailed"
    /\ m_lastError' = ErrorAt("Failed to parse picture", i)
    /\ failbit' = FALSE
    /\ i' = i + 1
    /\ pc' = "loop"
    /\ UNCHANGED <<file, canOpen, written, pos, pic, ret, m_fileHeader,
                   m_pictures, m_valid, warned, hdrAt>>

\* loadFile, lines 353-356.
FailPicture ==
    /\ pc = "pictureFailed"
    /\ m_lastError' = ErrorAt("Failed to parse picture", i)
    /\ ret' = "false"
    /\ pc' = "done"
    /\ UNCHANGED <<file, canOpen, written, pos, failbit, i, pic, m_fileHeader,
                   m_pictures, m_valid, warned, hdrAt>>

Next ==
    \/ LoadFile /\ UNCHANGED <<decodeVars, colorVars, alignVars>>
    \/ ParseFileHeader /\ UNCHANGED <<decodeVars, colorVars, alignVars>>
    \/ SkipAlignment /\ UNCHANGED <<decodeVars, colorVars, alignVars>>
    \/ NextPicture /\ UNCHANGED <<decodeVars, colorVars, alignVars>>
    \/ ReadPictureHeader /\ UNCHANGED <<decodeVars, colorVars, alignVars>>
    \/ ParseMipMapHeader /\ UNCHANGED <<decodeVars, colorVars, alignVars>>
    \/ ParseUserSpace /\ UNCHANGED <<decodeVars, colorVars, alignVars>>
    \/ ParseImageData /\ UNCHANGED <<decodeVars, colorVars, alignVars>>
    \/ ParseClutData /\ UNCHANGED <<decodeVars, colorVars, alignVars>>
    \/ PushPicture /\ UNCHANGED <<decodeVars, colorVars, alignVars>>
    \/ FailPicture /\ UNCHANGED <<decodeVars, colorVars, alignVars>>

Spec == Init /\ [][Next]_vars

\* The observable outcome of the call agrees with loadFile run as a whole.
StepsAgreeWithLoadFile ==
    (pc = "done" /\ canOpen) =>
        LET r == loadFile(file, m_fileHeader)
        IN  /\ r.ret = (ret = "true")
            /\ r.m_valid = m_valid
            /\ r.m_pictures = m_pictures
            /\ r.m_lastError = m_lastError

-----------------------------------------------------------------------------
(* Accessors of TIM2Parser                                                  *)

isValid == m_valid
getPictureCount == Len(m_pictures)
getPicture(index) == IF index >= Len(m_pictures) THEN None ELSE m_pictures[index + 1]

Returned == pc = "done"

ValidMagic == Len(file) >= 4 /\ SubSeq(file, 1, 4) = MagicTIM2

-----------------------------------------------------------------------------
(* Claims about loadFile, checked under Spec.                               *)

\* C1: a file whose first four bytes are not exactly 'T','I','M','2' (a file
\* with fewer than four bytes or none at all included) makes loadFile return
\* false, leaves isValid() false and exposes no picture.
C1_BadMagicRejected ==
    (Returned /\ ~ValidMagic) =>
        /\ ret = "false"
        /\ ~isValid
        /\ getPictureCount = 0

C1_Witness ==
    /\ Returned
    /\ Len(file) > 64
    /\ SubSeq(file, 1, 4) = <<84, 73, 77, 51>>
    /\ Len(written.blocks) = 2
    /\ ret = "false"
    /\ m_lastError = Error("Invalid TIM2 file signature")

\* C2 as stated: whenever the file ends before the end of a section it
\* declares, the mipmap header counted with its padding to 16 bytes, loadFile
\* returns false and isValid() is false.
C2_Original ==
    (Returned /\ canOpen /\ Len(file) < Max(written.need, written.needMip)) =>
        (ret = "false" /\ ~isValid)

\* C2 amended: whenever the file ends before the last byte that a section
\* reads (the file header, a picture header, the registers and size entries
\* of a mipmap header, the user space, the image bytes, the CLUT bytes),
\* loadFile returns false and isValid() is false.
C2_ShortReadFails ==
    (Returned /\ canOpen /\ Len(file) < written.need) =>
        (ret = "false" /\ ~isValid)

C2_Witness ==
    /\ Returned
    /\ ValidMagic
    /\ Len(hdrAt) = 2
    /\ Len(file) >= hdrAt[2] + SizeofPictureHeader
    /\ Len(file) < written.need
    /\ ret = "false"
    /\ ~isValid

\* C3 as stated: after a loadFile that fails while parsing picture i, for
\* every i, getPictureCount() is 0 and getPicture(k) is null for every k.
C3_NoPartialResult ==
    (Returned /\ ret = "false" /\ m_lastError.msg = "Failed to parse picture") =>
        /\ getPictureCount = 0
        /\ \A k \in 0..MaxPictures : getPicture(k) = None

\* C4: the format-version byte never changes the parse result: the file with
\* any other version byte loads with the same return value and the same
\* pictures, and parseFileHeader accepts every version 0..255.
SetVersion(f, v) == [f EXCEPT ![5] = v]

SampleVersions == {0, 3, 4, 5, 255}

C4_VersionIgnored ==
    (Returned /\ ValidMagic /\ Len(file) >= 5) =>
        /\ \A v \in SampleVersions :
              LET r == loadFile(SetVersion(file, v), m_fileHeader)
              IN  r.ret = (ret = "true") /\ r.m_pictures = m_pictures
        /\ \A v \in 0..255 :
              parseFileHeader(SetVersion(file, v), [pos |-> 0, fail |-> FALSE],
                              m_fileHeader).ok = (Len(file) >= SizeofFileHeader)

C4_Witness ==
    /\ Returned
    /\ ValidMagic
    /\ Len(file) > 64
    /\ file[5] = 5
    /\ warned
    /\ ret = "true"
    /\ getPictureCount = 2

\* C5: when loadFile returns true, isValid() is true, getPictureCount() is the
\* count declared in the file header and picture k holds the header, mipmap
\* header, user space, image bytes and CLUT bytes of the k-th block written
\* into the file; a declared count of 0 loads successfully with no pictures.
C5_PicturesInFileOrder ==
    /\ (Returned /\ ret = "true") =>
          /\ isValid
          /\ getPictureCount = U16(SubSeq(file, 7, 8))
          /\ getPictureCount = Len(written.blocks)
          /\ \A k \in 1..Len(written.blocks) :
                /\ m_pictures[k].header = written.blocks[k].header
                /\ m_pictures[k].mipMapHeader = written.blocks[k].mipMapHeader
                /\ m_pictures[k].userData = written.blocks[k].user
                /\ m_pictures[k].imageData = written.blocks[k].imageData
                /\ m_pictures[k].clutData = written.blocks[k].clutData
    /\ (Returned /\ ValidMagic /\ Len(file) >= SizeofFileHeader
          /\ U16(SubSeq(file, 7, 8)) = 0) =>
          (ret = "true" /\ isValid /\ m_pictures = <<>>)

C5_Witness ==
    /\ Returned
    /\ ret = "true"
    /\ getPictureCount = 2
    /\ m_pictures[1].header.imageType = TIM2_RGB32
    /\ m_pictures[2].header.imageType = TIM2_IDTEX4
    /\ m_pictures[2].clutData # <<>>

C5_WitnessEmpty ==
    Returned /\ ret = "true" /\ Len(file) >= SizeofFileHeader /\ m_pictures = <<>>

-----------------------------------------------------------------------------
(* SpecDecode: decodeImage and getClutColors called on a Picture.           *)
(* The pictures are such as the parser builds: imageData holds imageSize    *)
(* bytes, clutData holds clutSize bytes, and the mipmap header is present,  *)
(* with one size per level, exactly when mipMapTextures > 1.                *)

MaxLevel == 3

\* The levels asked for: the first ones, and the first two whose shift count
\* is not below the width of int.
Levels == 0..MaxLevel \cup {IntBits, IntBits + 1}

JunkBytes == {0, 255}

Dims == {<<2, 1>>, <<3, 2>>, <<0, 1>>}

BitsPerPixel(fmt) ==
    CASE fmt = TIM2_IDTEX4 -> 4
      [] fmt = TIM2_IDTEX8 -> 8
      [] fmt = TIM2_RGB16 -> 16
      [] fmt = TIM2_RGB24 -> 24
      [] fmt = TIM2_RGB32 -> 32
      [] OTHER -> 0

\* v >> n for a 16-bit v, as a number.
Halved(v, n) == IF n >= 16 THEN 0 ELSE v \div Pow2(n)

LevelBytes(fmt, w, h, level) ==
    (Max(1, Halved(w, level)) * Max(1, Halved(h, level)) * BitsPerPixel(fmt) + 7) \div 8

\* Image bytes: "example" starts with the pixels {10,20,30,255},{40,50,60,128},
\* "ab" starts with the byte 0xAB.
ImageBytes(seed, n) ==
    IF seed = "example"
    THEN [j \in 1..n |->
            IF j <= 8 THEN <<10, 20, 30, 255, 40, 50, 60, 128>>[j] ELSE (37 * j + 11) % 256]
    ELSE [j \in 1..n |-> (171 + 101 * (j - 1)) % 256]

ImageSeeds == {"example", "ab"}

\* Palettes: [clutType, clutColors, clutSize].
ClutKinds ==
    { [clutType |-> 0,   clutColors |-> 0,  clutSize |-> 0],
      [clutType |-> 3,   clutColors |-> 16, clutSize |-> 64],
      [clutType |-> 129, clutColors |-> 4,  clutSize |-> 8],
      [clutType |-> 66,  clutColors |-> 32, clutSize |-> 96],
      [clutType |-> 3,   clutColors |-> 2,  clutSize |-> 8],
      [clutType |-> 67,  clutColors |-> 16, clutSize |-> 64],
      [clutType |-> 3,   clutColors |-> 16, clutSize |-> 8],
      [clutType |-> 7,   clutColors |-> 4,  clutSize |-> 16] }

\* More palettes, decoded on one small IDTEX8 image: CSM2 with the compound
\* bit, two blocks of a compound palette, a compound RGB32 block, a plain
\* RGB24 palette, and two on which hasClut() is false.
MoreClutKinds ==
    { [clutType |-> 195, clutColors |-> 32, clutSize |-> 128],
      [clutType |-> 66,  clutColors |-> 64, clutSize |-> 192],
      [clutType |-> 67,  clutColors |-> 32, clutSize |-> 128],
      [clutType |-> 2,   clutColors |-> 4,  clutSize |-> 12],
      [clutType |-> 0,   clutColors |-> 16, clutSize |-> 64],
      [clutType |-> 3,   clutColors |-> 16, clutSize |-> 0] }

NoClut == [clutType |-> 0, clutColors |-> 0, clutSize |-> 0]

ClutBytes(n) == [j \in 1..n |-> (29 * j + 5) % 256]

MakePicture(fmt, dim, mips, short, seed, clut) ==
    LET sizes == [l \in 1..mips |-> LevelBytes(fmt, dim[1], dim[2], l - 1)]
        total == SumTo(sizes, mips) + (IF mips = 0 THEN LevelBytes(fmt, dim[1], dim[2], 0) ELSE 0)
        size  == IF short THEN total \div 2 ELSE total
    IN  [ header |->
            [ totalSize      |-> 48 + size + clut.clutSize,
              clutSize       |-> clut.clutSize,
              imageSize      |-> size,
              headerSize     |-> 48,
              clutColors     |-> clut.clutColors,
              pictFormat     |-> 0,
              mipMapTextures |-> mips,
              clutType       |-> clut.clutType,
              imageType      |-> fmt,
              imageWidth     |-> dim[1],
              imageHeight    |-> dim[2],
              gsTex0         |-> Zeros(8),
              gsTex1         |-> Zeros(8),
              gsTexaFbaPabe  |-> Zeros(4),
              gsTexClut      |-> Zeros(4) ],
          mipMapHeader |-> IF mips > 1
                           THEN [gsMiptbp1 |-> Zeros(8), gsMiptbp2 |-> Zeros(8),
                                 sizes |-> sizes]
                           ELSE None,
          userData     |-> <<>>,
          imageData    |-> ImageBytes(seed, size),
          clutData     |-> ClutBytes(clut.clutSize),
          extHeader    |-> None,
          comment      |-> <<>> ]

DecodePictures ==
    { MakePicture(fmt, dim, mips, short, seed, NoClut) :
        fmt \in {TIM2_NONE, TIM2_RGB16, TIM2_RGB24, TIM2_RGB32, 6}, dim \in Dims,
        mips \in {0, 1, 3, IntBits + 2}, short \in BOOLEAN, seed \in ImageSeeds }
    \cup
    { MakePicture(fmt, dim, mips, FALSE, seed, clut) :
        fmt \in {TIM2_IDTEX4, TIM2_IDTEX8}, dim \in Dims, mips \in {1, 3},
        seed \in ImageSeeds, clut \in ClutKinds }
    \cup
    { MakePicture(TIM2_IDTEX8, <<2, 1>>, 1, FALSE, "example", clut) : clut \in MoreClutKinds }

InitDecode ==
    /\ dpic \in DecodePictures
    /\ shiftMode \in ShiftModes
    /\ call = NoCall
    /\ result = <<>>
    /\ imgReads = {}
    /\ clutReads = {}
    /\ palReads = {}
    /\ IdleParser
    /\ IdleColor
    /\ IdleAlign

DecodeImage ==
    \E level \in Levels, junk \in JunkBytes :
        LET r == decodeImage(dpic, level, shiftMode, junk)
        IN  /\ call = NoCall
            /\ call' = [op |-> "decodeImage", level |-> level, junk |-> junk]
            /\ result' = r.colors
            /\ imgReads' = r.reads
            /\ clutReads' = r.creads
            /\ palReads' = r.entries
            /\ UNCHANGED <<dpic, shiftMode, parserVars, colorVars, alignVars>>

GetClutColors ==
    \E junk \in JunkBytes :
        LET r == getClutColors(dpic, junk)
        IN  /\ call = NoCall
            /\ call' = [op |-> "getClutColors", level |-> 0, junk |-> junk]
            /\ result' = r.colors
            /\ imgReads' = {}
            /\ clutReads' = r.reads
            /\ palReads' = {}
            /\ UNCHANGED <<dpic, shiftMode, parserVars, colorVars, alignVars>>

NextDecode == DecodeImage \/ GetClutColors

SpecDecode == InitDecode /\ [][NextDecode]_vars

-----------------------------------------------------------------------------
(* SpecColor16: every 16-bit value through Color16::toColor32, and every   *)
(* 31st of them as the single pixel of an RGB16 image and as the single    *)
(* entry of an RGB16 palette.                                               *)

OnPath(v) == v % 31 = 0

InitColor16 ==
    /\ v16 \in 0..65535
    /\ c32 = DefaultColor32
    /\ IdleParser
    /\ IdleDecoder
    /\ IdleAlign

ToColor32 ==
    /\ call = NoCall
    /\ c32' = toColor32(v16)
    /\ call' = [op |-> "toColor32", level |-> 0, junk |-> 0]
    /\ UNCHANGED <<v16, dpic, shiftMode, result, imgReads, clutReads, palReads, parserVars, alignVars>>

PixelRGB16 ==
    /\ call = NoCall
    /\ OnPath(v16)
    /\ dpic' = [MakePicture(TIM2_RGB16, <<1, 1>>, 1, FALSE, "ab", NoClut)
                  EXCEPT !.imageData = LE16(v16)]
    /\ LET r == decodeImage(dpic', 0, shiftMode, 0)
       IN  /\ result' = r.colors /\ imgReads' = r.reads
           /\ clutReads' = r.creads /\ palReads' = r.entries
    /\ call' = [op |-> "decodeImage", level |-> 0, junk |-> 0]
    /\ UNCHANGED <<v16, c32, shiftMode, parserVars, alignVars>>

ClutRGB16 ==
    /\ call = NoCall
    /\ OnPath(v16)
    /\ dpic' = [MakePicture(TIM2_IDTEX8, <<1, 1>>, 1, FALSE, "ab",
                            [clutType |-> TIM2_RGB16, clutColors |-> 1, clutSize |-> 2])
                  EXCEPT !.clutData = LE16(v16)]
    /\ LET r == getClutColors(dpic', 0)
       IN  result' = r.colors /\ imgReads' = {} /\ clutReads' = r.reads /\ palReads' = {}
    /\ call' = [op |-> "getClutColors", level |-> 0, junk |-> 0]
    /\ UNCHANGED <<v16, c32, shiftMode, parserVars, alignVars>>

NextColor16 == ToColor32 \/ PixelRGB16 \/ ClutRGB16

SpecColor16 == InitColor16 /\ [][NextColor16]_vars

-----------------------------------------------------------------------------
(* Claims about the decoder.                                                *)

Decoded == call.op = "decodeImage"
Level == call.level
Fmt == dpic.header.imageType

\* Where the data of the decoded level starts in imageData.
LevelStart ==
    IF dpic.mipMapHeader = None THEN 0
    ELSE SumTo(dpic.mipMapHeader.sizes, Level)

Data(k) == dpic.imageData[LevelStart + k + 1]
InData(k) == LevelStart + k < Len(dpic.imageData)

\* C6 (SpecDecode): decodeImage with mipLevel >= the declared level count, a
\* declared count of 0 included, returns an empty sequence and reads no byte
\* of the image or CLUT blob.
C6_InvalidLevelEmpty ==
    (Decoded /\ Level >= dpic.header.mipMapTextures) =>
        (result = <<>> /\ imgReads = {} /\ clutReads = {})

C6_Witness ==
    /\ Decoded
    /\ dpic.header.mipMapTextures = 3
    /\ Level = 3
    /\ dpic.imageData # <<>>
    /\ result = <<>>

C6_WitnessZero ==
    Decoded /\ dpic.header.mipMapTextures = 0 /\ Level = 0 /\ result = <<>>

\* C7 as stated (SpecDecode): for every level L below the declared count
\* decodeImage returns exactly max(1, width >> L) * max(1, height >> L)
\* colours, a dimension being 1 as soon as 2^L exceeds it.
C7_LevelSize ==
    (Decoded /\ Level < dpic.header.mipMapTextures) =>
        Len(result) = Max(1, Halved(dpic.header.imageWidth, Level))
                      * Max(1, Halved(dpic.header.imageHeight, Level))

\* C8 (SpecDecode): for RGB32 pixel k of a level is bytes 4k..4k+3 of the
\* level's data as (r,g,b,a); for RGB24 it is bytes 3k..3k+2 as (r,g,b) with
\* a = 255; the image {10,20,30,255},{40,50,60,128} decodes to those colours.
C8_TrueColourLiteral ==
    (Decoded /\ Level < dpic.header.mipMapTextures) =>
        /\ Fmt = TIM2_RGB32 =>
              \A k \in 0..(Len(result) - 1) :
                  InData(4 * k + 3) =>
                      result[k + 1] = Color32(Data(4 * k), Data(4 * k + 1),
                                              Data(4 * k + 2), Data(4 * k + 3))
        /\ Fmt = TIM2_RGB24 =>
              \A k \in 0..(Len(result) - 1) :
                  InData(3 * k + 2) =>
                      result[k + 1] = Color32(Data(3 * k), Data(3 * k + 1),
                                              Data(3 * k + 2), 255)
        /\ (Fmt = TIM2_RGB32 /\ Level = 0
              /\ dpic.header.imageWidth = 2 /\ dpic.header.imageHeight = 1
              /\ dpic.imageData = <<10, 20, 30, 255, 40, 50, 60, 128>>) =>
              result = <<Color32(10, 20, 30, 255), Color32(40, 50, 60, 128)>>

C8_Witness ==
    /\ Decoded
    /\ Fmt = TIM2_RGB32
    /\ Level = 0
    /\ dpic.imageData = <<10, 20, 30, 255, 40, 50, 60, 128>>
    /\ result = <<Color32(10, 20, 30, 255), Color32(40, 50, 60, 128)>>

C8_WitnessRGB24 ==
    /\ Decoded
    /\ Fmt = TIM2_RGB24
    /\ Level = 1
    /\ dpic.header.mipMapTextures = 3
    /\ Len(result) = 1
    /\ InData(2)
    /\ result[1] = Color32(Data(0), Data(1), Data(2), 255)

\* C9 (SpecColor16): a 16-bit value v decodes to r = expand(v[0:5)),
\* g = expand(v[5:10)), b = expand(v[10:15)) with expand(c) = (c << 3) | (c >> 2),
\* a = 255 when bit 15 is set and 0 otherwise; channels stay in 0..255,
\* 31 maps to 255 and 0 to 0; utils::expand5to8 is that expand.
Expand(c) == 8 * c + (c \div 4)

IsColor16(v, c) ==
    LET r5 == v % 32
        g5 == (v \div 32) % 32
        b5 == (v \div 1024) % 32
    IN  /\ c.r = Expand(r5) /\ c.g = Expand(g5) /\ c.b = Expand(b5)
        /\ c.a = (IF v >= 32768 THEN 255 ELSE 0)
        /\ {c.r, c.g, c.b, c.a} \subseteq 0..255
        /\ (r5 = 31 => c.r = 255) /\ (g5 = 31 => c.g = 255) /\ (b5 = 31 => c.b = 255)
        /\ (r5 = 0 => c.r = 0) /\ (g5 = 0 => c.g = 0) /\ (b5 = 0 => c.b = 0)
        /\ expand5to8(r5) = c.r /\ expand5to8(g5) = c.g /\ expand5to8(b5) = c.b

C9_Color16Expansion ==
    /\ call.op = "toColor32" => IsColor16(v16, c32)
    /\ call.op \in {"decodeImage", "getClutColors"} =>
          (Len(result) = 1 /\ IsColor16(v16, result[1]))

C9_Witness ==
    /\ call.op = "toColor32"
    /\ v16 = 33791
    /\ c32 = Color32(255, 255, 0, 255)

C9_WitnessPixel ==
    /\ call.op = "decodeImage"
    /\ v16 = 1023
    /\ dpic.imageData = <<255, 3>>
    /\ result = <<Color32(255, 255, 0, 0)>>

\* C10 (SpecDecode): for IDTEX4 the pixel with linear index p takes its
\* palette index from byte p/2 of the level's data, the low nibble when p is
\* even and the high nibble when p is odd; the byte 0xAB gives index 0xB for
\* the even pixel and 0xA for the odd one.
PaletteEntry(idx) ==
    LET colors == getClutColors(dpic, call.junk).colors
    IN  IF idx < Len(colors) THEN colors[idx + 1] ELSE DefaultColor32

C10_Idtex4Nibbles ==
    (Decoded /\ Level < dpic.header.mipMapTextures /\ Fmt = TIM2_IDTEX4
        /\ hasClut(dpic.header)) =>
        \A p \in 0..(Len(result) - 1) :
            InData(p \div 2) =>
                result[p + 1] =
                    PaletteEntry(IF p % 2 = 0 THEN Data(p \div 2) % 16
                                 ELSE Data(p \div 2) \div 16)

C10_Witness ==
    /\ Decoded
    /\ Fmt = TIM2_IDTEX4
    /\ Level = 0
    /\ dpic.header.clutType = TIM2_RGB32
    /\ dpic.header.clutColors = 16
    /\ dpic.header.clutSize = 64
    /\ dpic.imageData = <<171>>
    /\ Len(result) = 2
    /\ result[1] = PaletteEntry(11)
    /\ result[2] = PaletteEntry(10)
    /\ result[1] # result[2]

\* The palette as the call decoded it, and the pixel count of the level.
Palette == getClutColors(dpic, call.junk).colors

\* C11 (SpecDecode): for IDTEX8 with a CLUT the pixel with linear index p is
\* the decoded palette entry whose index is byte p of the level's data when
\* that index is below the number of decoded entries; an index at or above it
\* yields the default colour, and the decoded palette is read at no such index.
C11_Idtex8Lookup ==
    (Decoded /\ Level < dpic.header.mipMapTextures /\ Fmt = TIM2_IDTEX8
        /\ hasClut(dpic.header)) =>
        /\ \A p \in 0..(Len(result) - 1) :
              InData(p) =>
                  IF Data(p) < Len(Palette)
                  THEN result[p + 1] = Palette[Data(p) + 1] /\ Data(p) \in palReads
                  ELSE result[p + 1] = DefaultColor32 /\ Data(p) \notin palReads
        /\ \A e \in palReads : e < Len(Palette)

C11_Witness ==
    /\ Decoded
    /\ Fmt = TIM2_IDTEX8
    /\ Level = 0
    /\ dpic.header.clutType = TIM2_RGB32
    /\ dpic.header.clutColors = 16
    /\ dpic.header.clutSize = 64
    /\ dpic.imageData = <<10, 20>>
    /\ result = <<Palette[11], DefaultColor32>>
    /\ Palette[11] # DefaultColor32
    /\ palReads = {10}

\* C12 as stated (SpecDecode): for an indexed format on a picture without a
\* CLUT, and for an image format byte outside the enumeration, decodeImage
\* returns the full width * height buffer and every pixel of it is
\* transparent black, (0,0,0,0).
C12_DefaultTransparentBlack ==
    (Decoded /\ Level < dpic.header.mipMapTextures /\ Level < IntBits
        /\ \/ Fmt \in {TIM2_IDTEX4, TIM2_IDTEX8} /\ ~hasClut(dpic.header)
           \/ Fmt > TIM2_IDTEX8) =>
        /\ Len(result) = Max(1, Halved(dpic.header.imageWidth, Level))
                          * Max(1, Halved(dpic.header.imageHeight, Level))
        /\ \A k \in 1..Len(result) : result[k] = Color32(0, 0, 0, 0)

\* The raw CLUT entry k of the picture, decoded by the palette's pixel format.
ClutFmt == getClutPixelFormat(dpic.header)
EntryWidth == CASE ClutFmt = TIM2_RGB16 -> 2 [] ClutFmt = TIM2_RGB24 -> 3
                [] ClutFmt = TIM2_RGB32 -> 4 [] OTHER -> 0
InClut(k) == EntryWidth > 0 /\ (k + 1) * EntryWidth <= Len(dpic.clutData)
Raw(k, j) == dpic.clutData[k * EntryWidth + j + 1]
RawEntry(k) ==
    CASE ClutFmt = TIM2_RGB16 -> toColor32(Raw(k, 0) + 256 * Raw(k, 1))
      [] ClutFmt = TIM2_RGB24 -> Color32(Raw(k, 0), Raw(k, 1), Raw(k, 2), 255)
      [] ClutFmt = TIM2_RGB32 -> Color32(Raw(k, 0), Raw(k, 1), Raw(k, 2), Raw(k, 3))

GotClut == call.op = "getClutColors"
Csm1Compound == ~isClutCSM2(dpic.header) /\ isClutCompound(dpic.header)

\* Positions [8,16) and [16,24) of every 32-entry block exchanged.
Swap(n) ==
    IF n % 32 \in 8..15 THEN n + 8
    ELSE IF n % 32 \in 16..23 THEN n - 8
    ELSE n

\* C13 (SpecDecode): for a CSM1-compound palette getClutColors returns at
\* every index n the colour stored at raw index Swap(n), which exchanges
\* [8,16) with [16,24) inside every 32-entry block and leaves every other
\* position unchanged (index 9 holds raw 17, index 17 holds raw 9), and the
\* remap applied twice gives the original index.
C13_CompoundSwap ==
    (GotClut /\ hasClut(dpic.header) /\ Csm1Compound) =>
        /\ Len(result) = dpic.header.clutColors
        /\ \A n \in 0..(Len(result) - 1) :
              /\ clutIndex(dpic.header, n) = Swap(n)
              /\ clutIndex(dpic.header, clutIndex(dpic.header, n)) = n
              /\ (n % 32 \notin 8..23) => clutIndex(dpic.header, n) = n
              /\ InClut(Swap(n)) => result[n + 1] = RawEntry(Swap(n))

C13_Witness ==
    /\ GotClut
    /\ dpic.header.clutType = 66
    /\ dpic.header.clutColors = 64
    /\ result[10] = RawEntry(17)
    /\ result[18] = RawEntry(9)
    /\ result[42] = RawEntry(49)
    /\ result[8] = RawEntry(7)
    /\ RawEntry(9) # RawEntry(17)

\* C14 (SpecDecode): when hasClut() holds and the palette is CSM2 (with or
\* without the compound bit) or non-compound CSM1, getClutColors returns
\* exactly clutColors entries and entry i is decoded from raw CLUT entry i;
\* when hasClut() is false it returns an empty sequence.
C14_DeclaredOrder ==
    GotClut =>
        /\ ~hasClut(dpic.header) => result = <<>>
        /\ (hasClut(dpic.header) /\ ~Csm1Compound) =>
              /\ Len(result) = dpic.header.clutColors
              /\ \A n \in 0..(Len(result) - 1) :
                    InClut(n) => result[n + 1] = RawEntry(n)

C14_Witness ==
    /\ GotClut
    /\ dpic.header.clutType = 195
    /\ Len(result) = 32
    /\ result[10] = RawEntry(9)
    /\ result[10] # RawEntry(17)

C14_WitnessNoClut ==
    /\ GotClut
    /\ dpic.header.clutColors = 16
    /\ dpic.clutData # <<>>
    /\ ~hasClut(dpic.header)
    /\ result = <<>>

\* sizes[0] + ... + sizes[n-1], summed from the front.
RECURSIVE SumFirst(_, _)
SumFirst(sizes, n) == IF n = 0 THEN 0 ELSE Head(sizes) + SumFirst(Tail(sizes), n - 1)

OffsetOf(L) ==
    IF L = 0 \/ dpic.mipMapHeader = None THEN 0
    ELSE SumFirst(dpic.mipMapHeader.sizes, L)

\* C15 (SpecDecode): mip level L of a picture starts at byte offset 0 of the
\* image blob when L = 0 or the picture has no mipmap header, and otherwise
\* at sizes[0] + ... + sizes[L-1]; the offsets are non-decreasing in L, and
\* a decode of level L reads no image byte below that offset.
C15_LevelOffset ==
    (Decoded /\ Level < dpic.header.mipMapTextures) =>
        /\ \A L \in 0..Level :
              /\ getImageOffset(dpic, L) = OffsetOf(L)
              /\ L > 0 => getImageOffset(dpic, L - 1) <= getImageOffset(dpic, L)
        /\ \A r \in imgReads : r >= OffsetOf(Level)
        /\ (result # <<>> /\ Fmt \in {TIM2_RGB16, TIM2_RGB24, TIM2_RGB32}) =>
              OffsetOf(Level) \in imgReads

C15_Witness ==
    /\ Decoded
    /\ Fmt = TIM2_RGB32
    /\ dpic.header.mipMapTextures = 3
    /\ dpic.header.imageWidth = 3
    /\ dpic.mipMapHeader.sizes = <<24, 4, 4>>
    /\ Level = 2
    /\ OffsetOf(2) = 28
    /\ 28 \in imgReads
    /\ 27 \notin imgReads

\* C16 as stated (SpecDecode): decodeImage and getClutColors leave every field
\* of the Picture unchanged, and another call with the same Picture and the
\* same mip level returns an equal sequence, whatever the bytes it finds
\* beyond the end of a blob.
C16_Pure ==
    /\ [][dpic' = dpic]_vars
    /\ [](Decoded =>
            \A j \in JunkBytes : decodeImage(dpic, Level, shiftMode, j).colors = result)
    /\ [](GotClut =>
            \A j \in JunkBytes : getClutColors(dpic, j).colors = result)

-----------------------------------------------------------------------------
(* Further claims about loadFile, checked under Spec.                       *)

C18_UserDataAfterHeader ==
    (Returned /\ ret = "true") =>
        \A k \in 1..Len(m_pictures) :
            LET q    == m_pictures[k]
                user == written.blocks[k].user
            IN  IF q.extHeader # None
                THEN q.userData = SubSeq(user, SizeofExtendedHeader + 1,
                                         SizeofExtendedHeader + q.extHeader.userDataSize)
                ELSE q.userData = user

\* The first multiple of a at or after x.
FirstMultiple(x, a) == CHOOSE m \in x..(x + a - 1) : m % a = 0

Unit == IF m_fileHeader[6] = 1 THEN 128 ELSE 16

\* C19 (Spec): in every picture the image blob is read from the first
\* multiple of the alignment unit at or after the end of the headers and user
\* space, and the CLUT blob from the first multiple at or after the end of the
\* image blob; imageData has exactly imageSize bytes and clutData exactly
\* clutSize bytes; a declared size of 0 gives an empty blob and reads nothing.
C19_BlobsAligned ==
    [][ /\ (pc = "imageData" /\ pc' = "clutData") =>
             LET start == FirstMultiple(pos, Unit)
                 n     == pic.header.imageSize
             IN  /\ pos' = start + n
                 /\ pic'.imageData = SubSeq(file, start + 1, start + n)
                 /\ Len(pic'.imageData) = n
        /\ (pc = "clutData" /\ pc' = "push") =>
             LET start == FirstMultiple(pos, Unit)
                 n     == pic.header.clutSize
             IN  /\ pos' = start + n
                 /\ pic'.clutData = SubSeq(file, start + 1, start + n)
                 /\ Len(pic'.clutData) = n
                 /\ pic'.imageData = pic.imageData
        /\ (pc' = "done" /\ ret' = "true") =>
             \A k \in 1..Len(m_pictures') :
                 /\ Len(m_pictures'[k].imageData) = m_pictures'[k].header.imageSize
                 /\ Len(m_pictures'[k].clutData) = m_pictures'[k].header.clutSize
      ]_vars

C19_Witness ==
    /\ Returned
    /\ ret = "true"
    /\ file[6] = 1
    /\ Len(file) = 392
    /\ Len(m_pictures) = 1
    /\ hdrAt = <<128>>
    /\ m_pictures[1].header.headerSize = 70
    /\ m_pictures[1].imageData = SubSeq(file, 257, 257)
    /\ m_pictures[1].clutData = SubSeq(file, 385, 392)

C19_WitnessEmpty ==
    /\ Returned
    /\ ret = "true"
    /\ Len(m_pictures) = 1
    /\ m_pictures[1].header.imageSize = 0
    /\ m_pictures[1].header.clutSize = 4
    /\ m_pictures[1].imageData = <<>>
    /\ Len(m_pictures[1].clutData) = 4

\* C20 (Spec): the alignment unit is 128 when the alignment-mode byte is 1 and
\* 16 for every other byte value, and the first picture header is read at the
\* first multiple of that unit at or after offset 16: at 16 in 16-byte mode
\* and at 128 in 128-byte mode.
C20_FirstHeaderOffset ==
    Len(hdrAt) >= 1 =>
        LET mode == file[6]
            unit == IF mode = 1 THEN 128 ELSE 16
        IN  /\ m_fileHeader = SubSeq(file, 1, SizeofFileHeader)
            /\ getAlignment(m_fileHeader) = unit
            /\ \A b \in 0..255 :
                  getAlignment([m_fileHeader EXCEPT ![6] = b]) =
                      IF b = 1 THEN 128 ELSE 16
            /\ hdrAt[1] = FirstMultiple(SizeofFileHeader, unit)
            /\ hdrAt[1] = IF mode = 1 THEN 128 ELSE 16

C20_Witness ==
    /\ Returned
    /\ ret = "true"
    /\ file[6] = 1
    /\ Len(m_pictures) >= 1
    /\ hdrAt[1] = 128

C20_WitnessOtherMode ==
    /\ Returned
    /\ ret = "true"
    /\ file[6] = 2
    /\ Len(m_pictures) >= 1
    /\ hdrAt[1] = 16

\* C21 (Spec): after a successful parse the mipmap header of a picture is
\* present exactly when its declared level count is greater than 1; when
\* present, sizes has exactly levelCount entries, taken in file order after
\* the two 64-bit fields, and the cursor moves on by 16 + 4 * levelCount
\* rounded up to the next multiple of 16.
C21_MipMapHeader ==
    [][ /\ (pc = "mipMapHeader" /\ pc' = "userSpace") =>
             LET n == pic.header.mipMapTextures
             IN  IF n > 1
                 THEN /\ pic'.mipMapHeader # None
                      /\ Len(pic'.mipMapHeader.sizes) = n
                      /\ \A k \in 1..n :
                            pic'.mipMapHeader.sizes[k] =
                                U32(SubSeq(file, pos + 16 + 4 * (k - 1) + 1, pos + 16 + 4 * k))
                      /\ pos' = pos + FirstMultiple(16 + 4 * n, 16)
                 ELSE /\ pic'.mipMapHeader = None
                      /\ pos' = pos
        /\ (pc' = "done" /\ ret' = "true") =>
             \A k \in 1..Len(m_pictures') :
                 LET q == m_pictures'[k]
                 IN  /\ (q.mipMapHeader # None) <=> (q.header.mipMapTextures > 1)
                     /\ q.mipMapHeader # None =>
                            Len(q.mipMapHeader.sizes) = q.header.mipMapTextures
      ]_vars

C21_Witness ==
    /\ Returned
    /\ ret = "true"
    /\ Len(m_pictures) = 2
    /\ m_pictures[1].header.mipMapTextures = 3
    /\ m_pictures[1].mipMapHeader # None
    /\ m_pictures[1].mipMapHeader.sizes = <<0, 0, 0>>
    /\ m_pictures[2].header.mipMapTextures = 2
    /\ m_pictures[2].mipMapHeader # None
    /\ m_pictures[2].mipMapHeader.sizes = <<8, 2>>
    /\ hdrAt[2] - hdrAt[1] >= SizeofPictureHeader + 32

C21_WitnessAbsent ==
    /\ Returned
    /\ ret = "true"
    /\ Len(m_pictures) = 1
    /\ m_pictures[1].header.mipMapTextures = 1
    /\ m_pictures[1].mipMapHeader = None

\* 48 plus the padded size of the mipmap header, 0 when there is none.
HeaderBytes(p) ==
    SizeofPictureHeader +
    (IF p.mipMapHeader # None
     THEN FirstMultiple(16 + 4 * p.header.mipMapTextures, 16) ELSE 0)

\* C22 (Spec): with headerDataSize = 48 + the padded mipmap header size (0 if
\* absent), a declared headerSize above headerDataSize makes the parser read
\* exactly headerSize - headerDataSize user-space bytes; with headerSize at or
\* below headerDataSize no user-space byte is read and userData is empty, so
\* the difference is never taken when it would be negative.
C22_UserSpaceSize ==
    [][ (pc = "userSpace" /\ pc' = "imageData") =>
           LET declared == pic.header.headerSize
               hds      == HeaderBytes(pic)
           IN  IF declared > hds
               THEN /\ pos' = pos + (declared - hds)
                    /\ pic'.userData = SubSeq(file, pos + 1, pos + (declared - hds))
                    /\ Len(pic'.userData) = declared - hds
               ELSE /\ pos' = pos
                    /\ pic'.userData = <<>>
                    /\ pic' = pic
      ]_vars

C22_Witness ==
    /\ Returned
    /\ ret = "true"
    /\ Len(m_pictures) = 1
    /\ m_pictures[1].header.headerSize = 83
    /\ m_pictures[1].mipMapHeader # None
    /\ HeaderBytes(m_pictures[1]) = 80
    /\ Len(m_pictures[1].userData) = 3
    /\ m_pictures[1].userData = SubSeq(file, hdrAt[1] + 81, hdrAt[1] + 83)

C22_WitnessBelow ==
    /\ Returned
    /\ ret = "true"
    /\ Len(m_pictures) = 1
    /\ m_pictures[1].header.headerSize = 0
    /\ HeaderBytes(m_pictures[1]) = 80
    /\ m_pictures[1].userData = <<>>

\* C23 (Spec): when the user space starts with an extended header, with
\* L = min(length of the user space, declared valid userSpaceSize): if
\* 16 + userDataSize < L the comment is the bytes from offset 16 + userDataSize
\* up to, not including, the first zero byte or offset L, whichever comes
\* first; otherwise it is empty.  So the comment holds no zero byte, is at
\* most L - (16 + userDataSize) long, and depends on no byte at or beyond L.
C23_CommentBounded ==
    [][ (pc = "userSpace" /\ pc' = "imageData" /\ pos' - pos >= SizeofExtendedHeader
           /\ SubSeq(file, pos + 1, pos + 4) = MagicEXt) =>
           LET blob == SubSeq(file, pos + 1, pos')
               e    == ExtendedHeaderOf(SubSeq(blob, 1, SizeofExtendedHeader))
               L    == Min(Len(blob), e.userSpaceSize)
               off  == SizeofExtendedHeader + e.userDataSize
               c    == pic'.comment
           IN  /\ pic'.extHeader = e
               /\ IF off < L
                  THEN /\ Len(c) <= L - off
                       /\ c = SubSeq(blob, off + 1, off + Len(c))
                       /\ \A j \in 1..Len(c) : c[j] # 0
                       /\ Len(c) < L - off => blob[off + Len(c) + 1] = 0
                  ELSE c = <<>>
      ]_vars

C23_Witness ==
    /\ Returned
    /\ ret = "true"
    /\ Len(m_pictures) >= 1
    /\ m_pictures[1].extHeader # None
    /\ m_pictures[1].extHeader.userSpaceSize = 21
    /\ m_pictures[1].extHeader.userDataSize = 2
    /\ Len(m_pictures[1].userData) = 22
    /\ m_pictures[1].comment = <<97, 98>>

C23_WitnessCut ==
    /\ Returned
    /\ ret = "true"
    /\ Len(m_pictures) >= 1
    /\ m_pictures[1].extHeader # None
    /\ m_pictures[1].extHeader.userSpaceSize = 19
    /\ m_pictures[1].userData[20] = 98
    /\ m_pictures[1].comment = <<97>>

C23_WitnessBlobEnd ==
    /\ Returned
    /\ ret = "true"
    /\ Len(m_pictures) = 2
    /\ m_pictures[2].extHeader # None
    /\ m_pictures[2].extHeader.userSpaceSize = 100
    /\ Len(m_pictures[2].userData) = 22
    /\ m_pictures[2].comment = <<97, 98, 99, 100>>

C23_WitnessEmpty ==
    /\ Returned
    /\ ret = "true"
    /\ Len(m_pictures) = 2
    /\ m_pictures[2].extHeader # None
    /\ m_pictures[2].extHeader.userSpaceSize = 18
    /\ m_pictures[2].extHeader.userDataSize = 2
    /\ m_pictures[2].comment = <<>>

-----------------------------------------------------------------------------
(* SpecAlign: TIM2Parser::alignOffset and skipAlignment applied to every    *)
(* offset up to MaxOffset, with both alignment units.                       *)

MaxOffset == 300

Units == {getAlignment(FileHeaderBytes(MagicTIM2, TIM2_FORMAT_VERSION, m, 0)) :
            m \in {TIM2_ALIGN_16, TIM2_ALIGN_128}}

InitAlign ==
    /\ argOffset \in 0..MaxOffset
    /\ argAlignment \in Units
    /\ aligned = <<>>
    /\ skipped = <<>>
    /\ IdleParser
    /\ IdleDecoder
    /\ IdleColor

AlignOffset ==
    /\ aligned = <<>>
    /\ aligned' = <<alignOffset(argOffset, argAlignment)>>
    /\ UNCHANGED <<argOffset, argAlignment, skipped, parserVars, decodeVars, colorVars>>

\* skipAlignment on a good stream whose cursor is at `argOffset`.
SkipAlignmentAt ==
    /\ skipped = <<>>
    /\ skipped' = <<skipAlignment([pos |-> argOffset, fail |-> FALSE], argAlignment).pos>>
    /\ UNCHANGED <<argOffset, argAlignment, aligned, parserVars, decodeVars, colorVars>>

NextAlign == AlignOffset \/ SkipAlignmentAt

SpecAlign == InitAlign /\ [][NextAlign]_vars

\* C24 (SpecAlign): for a in {16, 128}, alignOffset(offset, a) is the smallest
\* multiple of a that is at least offset; it returns an offset that is a
\* multiple of a unchanged, so skipAlignment leaves an aligned cursor where it
\* is; alignOffset(17, 16) = 32; it is idempotent; and it equals
\* utils::alignUp.
C24_AlignOffset ==
    /\ aligned # <<>> =>
          LET r == aligned[1]
          IN  /\ r % argAlignment = 0
              /\ r >= argOffset
              /\ \A m \in argOffset..r : m % argAlignment = 0 => m = r
              /\ argOffset % argAlignment = 0 => r = argOffset
              /\ (argOffset = 17 /\ argAlignment = 16) => r = 32
              /\ alignOffset(r, argAlignment) = r
              /\ alignUp(argOffset, argAlignment) = r
              /\ isAligned(r, argAlignment)
    /\ skipped # <<>> =>
          /\ argOffset % argAlignment = 0 => skipped[1] = argOffset
          /\ skipped[1] = FirstMultiple(argOffset, argAlignment)

C24_Witness ==
    /\ argOffset = 17
    /\ argAlignment = 16
    /\ aligned = <<32>>
    /\ skipped = <<32>>

C24_WitnessAligned ==
    /\ argOffset = 256
    /\ argAlignment = 128
    /\ aligned = <<256>>
    /\ skipped = <<256>>

\* C25 (Spec): throughout loadFile the read position never decreases: every
\* read, padding skip and alignment seek leaves the cursor where it was or
\* moves it forward; each picture header is read at the cursor the picture
\* before it left, so every byte of picture k is read from an offset below
\* every byte of picture k+1.
C25_CursorMonotone ==
    [][ /\ pos' >= pos
        /\ pc = "pictureHeader" => hdrAt' = Append(hdrAt, pos)
        /\ \A k \in 1..Len(hdrAt') :
              /\ hdrAt'[k] <= pos'
              /\ k < Len(hdrAt') => hdrAt'[k] + SizeofPictureHeader <= hdrAt'[k + 1]
      ]_vars

C25_Witness ==
    /\ Returned
    /\ ret = "true"
    /\ Len(m_pictures) = 2
    /\ m_pictures[1].mipMapHeader # None
    /\ Len(m_pictures[1].imageData) = 10
    /\ m_pictures[2].extHeader # None
    /\ Len(m_pictures[2].clutData) = 8
    /\ hdrAt[1] < hdrAt[2]
    /\ hdrAt[2] < pos
    /\ pos = Len(file)

\* C26 (Spec): errors are not recovered per picture: once parsing picture i
\* fails, loadFile returns false at once; nothing more is read, so no byte of
\* a later picture is read, and no picture with index i or greater is
\* appended to the collection.
C26_NoRecovery ==
    [][ /\ pc = "pictureFailed" =>
              /\ pc' = "done"
              /\ ret' = "false"
              /\ pos' = pos
              /\ hdrAt' = hdrAt
              /\ m_pictures' = m_pictures
        /\ pc' = "pictureFailed" =>
              /\ Len(m_pictures') = i'
              /\ Len(hdrAt') = i' + 1
        /\ (pc' = "done" /\ m_lastError'.msg = "Failed to parse picture") =>
              /\ ret' = "false"
              /\ ~m_valid'
              /\ m_lastError'.arg = i'
              /\ Len(m_pictures') = i'
              /\ Len(hdrAt') = i' + 1
              /\ i' < pictures(m_fileHeader')
      ]_vars

C26_Witness ==
    /\ Returned
    /\ ret = "false"
    /\ pictures(m_fileHeader) = 2
    /\ m_lastError = ErrorAt("Failed to parse picture", 0)
    /\ m_pictures = <<>>
    /\ Len(hdrAt) = 1
    /\ pos <= Len(file)

C26_WitnessSecond ==
    /\ Returned
    /\ ret = "false"
    /\ pictures(m_fileHeader) = 2
    /\ m_lastError = ErrorAt("Failed to parse picture", 1)
    /\ Len(m_pictures) = 1
    /\ Len(hdrAt) = 2

-----------------------------------------------------------------------------
(* Further claims about the decoder, checked under SpecDecode.               *)

\* A file of one picture block that holds p, in 16-byte mode.
PictureFile(p) ==
    WriteFile([magic |-> MagicTIM2, version |-> TIM2_FORMAT_VERSION,
               formatId |-> TIM2_ALIGN_16,
               blocks |-> << [header |-> p.header, mipMapHeader |-> p.mipMapHeader,
                              user |-> p.userData, imageData |-> p.imageData,
                              clutData |-> p.clutData] >>]).bytes

\* loadFile succeeds on that file and p is the picture it yields.
LoadedPicture ==
    LET r == loadFile(PictureFile(dpic), Zeros(SizeofFileHeader))
    IN  r.ret /\ r.m_valid /\ r.m_pictures = <<dpic>>

\* C27 (SpecDecode): for a successfully loaded picture and a mip level below
\* its declared level count, every index decodeImage reads from the image
\* blob is below imageData.size().
C27_ImageReadsInRange ==
    (Decoded /\ Level < dpic.header.mipMapTextures /\ LoadedPicture) =>
        \A r \in imgReads : r < Len(dpic.imageData)

\* C28 (SpecDecode): for a successfully loaded picture with hasClut(), every
\* index getClutColors reads from the CLUT blob is below clutData.size().
C28_ClutReadsInRange ==
    (GotClut /\ hasClut(dpic.header) /\ LoadedPicture) =>
        \A r \in clutReads : r < Len(dpic.clutData)

\* C29 (SpecDecode): for a CSM1-compound palette with any declared clutColors
\* the raw entries getClutColors reads for the positions 0..clutColors-1 are
\* a permutation of 0..clutColors-1.
C29_CompoundPermutation ==
    (GotClut /\ hasClut(dpic.header) /\ Csm1Compound /\ EntryWidth > 0) =>
        {r \div EntryWidth : r \in clutReads} = 0..(dpic.header.clutColors - 1)

-----------------------------------------------------------------------------
(* Further claims about loadFile, checked under Spec.                        *)

\* What the accessors getFileHeader, getPictures, isValid, getLastError give.
Exposed ==
    [ getFileHeader |-> m_fileHeader, getPictures |-> m_pictures,
      isValid |-> isValid, getLastError |-> m_lastError ]

\* What they give after the same call on a fresh parser whose m_fileHeader
\* held h.
OnFresh(h) ==
    IF canOpen
    THEN LET r == loadFile(file, h)
         IN  [ getFileHeader |-> r.m_fileHeader, getPictures |-> r.m_pictures,
               isValid |-> r.m_valid, getLastError |-> r.m_lastError ]
    ELSE [ getFileHeader |-> h, getPictures |-> <<>>, isValid |-> FALSE,
           getLastError |-> Error("Failed to open file") ]

\* C30 (Spec): what a parser exposes after loadFile returns is determined by
\* the file of that call alone: it is what a fresh parser exposes after the
\* same call, whether the parser loaded another file before or not, for
\* successful and for failed loads.
C30_DeterminedByFile ==
    Returned => \E h \in FreshFileHeaders : Exposed = OnFresh(h)

====
